---- MODULE Spec2Model ----
(***************************************************************************)
(* A model of github.com/go-corelibs/diff.                                 *)
(*                                                                         *)
(* Diff engine (diff.go): a Diff owns the edits computed between a source  *)
(* and a changed text, groups them by the adjacency of their end lines,    *)
(* and keeps a selection ("keep") of edit indices from which the unified   *)
(* diff and the modified text are regenerated.                             *)
(*                                                                         *)
(* Texts are sequences of lines.  The edits of myers.ComputeEdits are line *)
(* edits: a span runs from (line, column 1) to (line, column 1), so a span *)
(* is modelled by its Start and End line (1-based, as span.Point.Line()).  *)
(* Edit and group indices are 0-based, as in Go; the sequences of the      *)
(* model are 1-based, so d.edits[i] is edits[i + 1].                       *)
(*                                                                         *)
(* Render engine (render.go, render-batch.go): a CRender holds seven pairs *)
(* of markup strings; RenderDiff splits a unified diff into lines, pairs   *)
(* the removed lines of a run with the added lines that follow them for a  *)
(* character diff (RenderLine), and wraps every line in the pair of its    *)
(* class.  A string is a sequence of characters; a markup string that was  *)
(* configured is one symbol of such a sequence, so the markup of a result  *)
(* can be told from its text.  Line indices are 0-based, as in Go:         *)
(* lines[i] of the code is outLines[i + 1] of the model.                   *)
(***************************************************************************)
EXTENDS Integers, Sequences, FiniteSets, TLC

\* ------------------------------------------------------------------ bounds

\* Longest source text, in lines.
MaxLines == 2
\* Most edits the edit computation returns.
MaxEdits == 2

\* The lines of the source texts: the source of n lines is the first n.
SourceLines == <<"l1", "l2", "l3", "l4", "l5">>
\* The text the k-th edit inserts, when it is an insertion.
InsertedLines == <<"n1", "n2", "n3", "n4", "n5">>
\* The texts SetEdit is called with.
SetTexts == {<<"z">>}
\* The paths a Diff is constructed with, as sequences of characters.
Paths == {<<"f">>}

\* The zero values of Go's string (as a text) and error.
EmptyText == <<>>
Nil == "nil"

VARIABLES
    path,       \* Diff.path
    source,     \* Diff.source
    changed,    \* Diff.changed
    edits,      \* Diff.edits: sequence of [Span: [Start, End], NewText]
    keep,       \* Diff.keep: the keys of the map
    groups,     \* Diff.groups: sequence of sequences of edit indices
    op,         \* the method called last ("New" after construction)
    arg,        \* its index argument (NoArg when it takes none)
    ok,         \* its boolean result
    text,       \* its text result
    err,        \* its error result
    panicked,   \* whether the call ended in a run-time panic at the caller
    setCalled,  \* whether SetEdit has been called
    hist        \* the pair of calls under way: KeepEdit(i); SkipEdit(i), or
                \* KeepAll or SkipAll; ModifiedEdits

VARIABLE
    render      \* the state of the render engine, a record of the fields
                \* named below

\* The CRender values allocated, by pointer (1, 2, ...).
heap == render.heap
\* The pointer Make returned (0: Make was not called).
renderer == render.renderer
\* The last Clone: the pointer cloned and the one returned.
clone == render.clone
\* The number of Set calls made.
nset == render.nset
\* RenderDiff's argument.
unified == render.unified
\* RenderDiff: strings.Split(unified, "\n").
original == render.original
\* prepareRenderDiff: idx, the index of the line scanned next.
scanIdx == render.scanIdx
\* prepareRenderDiff: lines, the lines put out so far.
outLines == render.outLines
\* prepareRenderDiff: the batch pointer, <<[d, a]>> or <<>>.
batch == render.batch
\* The indices in lines of the batch's d and a lines.
slots == render.slots
\* The pairs of lines the flushes have rewritten.
log == render.log
\* RenderDiff's result.
markup == render.markup
\* Where the render engine is.
pc == render.pc
\* RenderLine: what DiffMain returned.
diffs == render.diffs
\* RenderLine's two results.
ma == render.ma
mb == render.mb

\* The state of the Diff engine and that of the render engine.
dvars == <<path, source, changed, edits, keep, groups, op, arg, ok, text, err,
           panicked, setCalled, hist>>
rvars == <<render>>
vars == <<dvars, rvars>>

\* The argument recorded for a call that takes no index: below every index.
NoArg == -2 - MaxEdits

\* ------------------------------------------------------------- collaborators

\* span.Compare on two line spans: by start point, then by end point.
CompareSpan(a, b) ==
    IF a.Start # b.Start THEN (IF a.Start < b.Start THEN -1 ELSE 1)
    ELSE IF a.End # b.End THEN (IF a.End < b.End THEN -1 ELSE 1)
    ELSE 0

\* One step of a stable insertion sort: e goes after every edit not greater.
RECURSIVE InsertEdit(_, _)
InsertEdit(sorted, e) ==
    IF sorted = <<>> THEN <<e>>
    ELSE IF CompareSpan(Head(sorted).Span, e.Span) > 0
         THEN <<e>> \o sorted
         ELSE <<Head(sorted)>> \o InsertEdit(Tail(sorted), e)

\* gotextdiff.SortTextEdits: a stable sort of the edits by span.
RECURSIVE SortTextEdits(_)
SortTextEdits(es) ==
    IF es = <<>> THEN <<>>
    ELSE InsertEdit(SortTextEdits(SubSeq(es, 1, Len(es) - 1)), es[Len(es)])

\* Whether the conversion of a span of es to offsets in `before` fails: a
\* point lies beyond the line after the last one.  The collaborators ignore
\* the conversion's error and fault on the offset they then read.
EditsFault(before, es) ==
    \E i \in 1..Len(es) :
        \/ es[i].Span.Start > Len(before) + 1
        \/ es[i].Span.End > Len(before) + 1

\* The loop of gotextdiff.ApplyEdits over the sorted edits; `last` is the
\* offset (in lines) up to which `before` has been consumed.
RECURSIVE ApplyLoop(_, _, _, _)
ApplyLoop(before, es, after, last) ==
    IF es = <<>>
    THEN IF last < Len(before)
         THEN after \o SubSeq(before, last + 1, Len(before))
         ELSE after
    ELSE LET edit == Head(es)
             start == edit.Span.Start - 1
             copied == IF start > last
                       THEN after \o SubSeq(before, last + 1, start)
                       ELSE after
         IN ApplyLoop(before, Tail(es), copied \o edit.NewText,
                      edit.Span.End - 1)

\* gotextdiff.ApplyEdits(before, edits), where it does not fault.
ApplyEdits(before, es) ==
    IF es = <<>> THEN before
    ELSE ApplyLoop(before, SortTextEdits(es), <<>>, 0)

\* The context lines of a hunk (addEqualLines): lines[start..end), clipped.
EqualLines(lines, start, end) ==
    LET lo == IF start < 0 THEN 0 ELSE start
        hi == IF end > Len(lines) THEN Len(lines) ELSE end
    IN [i \in 1..(IF hi > lo THEN hi - lo ELSE 0) |-> <<" ", lines[lo + i]>>]

\* The lines one edit adds to a hunk: its deleted lines, then its inserted.
EditLines(lines, edit) ==
    [i \in 1..(edit.Span.End - edit.Span.Start) |->
        <<"-", lines[edit.Span.Start - 1 + i]>>]
    \o [i \in 1..Len(edit.NewText) |-> <<"+", edit.NewText[i]>>]

\* The lines of the hunk gotextdiff.ToUnified builds over the sorted edits
\* (texts this short give one hunk: every edit is within the gap of the
\* last); `last` is the line of the source the hunk has reached.
RECURSIVE HunkLoop(_, _, _)
HunkLoop(lines, es, last) ==
    IF es = <<>> THEN EqualLines(lines, last, Len(lines))
    ELSE LET edit == Head(es)
             start == edit.Span.Start - 1
         IN EqualLines(lines, last, start)
            \o EditLines(lines, edit)
            \o HunkLoop(lines, Tail(es),
                        IF edit.Span.End - 1 > start
                        THEN edit.Span.End - 1 ELSE start)

\* fmt.Sprint(gotextdiff.ToUnified(from, to, content, edits)): no text
\* without edits; else the two header lines and the hunk.
ToUnified(from, to, content, es) ==
    IF es = <<>> THEN EmptyText
    ELSE <<<<"---", from>>, <<"+++", to>>>>
         \o HunkLoop(content, SortTextEdits(es), 0)

\* One step of the sort of maps.SortedNumbers: x goes before the first
\* greater key.
RECURSIVE InsertNumber(_, _)
InsertNumber(sorted, x) ==
    IF sorted = <<>> THEN <<x>>
    ELSE IF Head(sorted) > x THEN <<x>> \o sorted
         ELSE <<Head(sorted)>> \o InsertNumber(Tail(sorted), x)

\* maps.SortedNumbers: the keys, read in the map's iteration order `order`,
\* sorted ascending.
RECURSIVE SortedNumbers(_)
SortedNumbers(order) ==
    IF order = <<>> THEN <<>>
    ELSE InsertNumber(SortedNumbers(Tail(order)), Head(order))

\* The orders in which Go may iterate over a map with the keys S.
IterationOrders(S) ==
    {o \in [1..Cardinality(S) -> S] : \A i, j \in 1..Cardinality(S) :
        i # j => o[i] # o[j]}

\* ------------------------------------------------------------ construction

\* A line edit: a deletion of the lines [Start, End) or an insertion of
\* NewText before the line Start.
Edit(s, e, t) == [Span |-> [Start |-> s, End |-> e], NewText |-> t]

\* The edits the k-th edit of a script may be, with points up to the line
\* `reach`: the deletion of one line or the insertion of one new line.
EditsAt(k, reach) ==
    {Edit(p[1], p[2], IF p[1] = p[2] THEN <<InsertedLines[k]>> ELSE <<>>) :
        p \in {q \in (1..reach) \X (1..reach) :
                  q[1] <= q[2] /\ q[2] <= q[1] + 1}}

\* The scripts of m edits ordered by position and not overlapping: each
\* edit starts where the one before it ends, or later.
RECURSIVE EditScripts(_, _)
EditScripts(m, reach) ==
    IF m = 0 THEN {<<>>}
    ELSE {Append(es, e) : <<es, e>> \in
            {x \in EditScripts(m - 1, reach) \X EditsAt(m, reach) :
                m = 1 \/ x[1][m - 1].Span.End <= x[2].Span.Start}}

\* myers.ComputeEdits(uri, source, changed): the texts `changed` that differ
\* from a source by a script of at most MaxEdits line edits, with the script;
\* every point of a script lies within the source or right after its end.
ComputeEdits(src) ==
    UNION {EditScripts(m, Len(src) + 1) : m \in 0..MaxEdits}

\* The sources: the empty text and the text of MaxLines lines.
Sources == {SubSeq(SourceLines, 1, n) : n \in {0, MaxLines}}

\* ------------------------------------------------------------------- Diff

\* Adjacent with the bug of joining only edits that end on the same line.
AdjacentSameLine(thisLine, previousLine) ==
    thisLine = previousLine

\* Diff.init's test for an edit that joins the current group.
Adjacent(thisLine, previousLine) ==
    thisLine = previousLine \/ thisLine = previousLine + 1

\* FlushGroup with the bug of dropping the trailing group.
FlushGroupNever(gs, group) == gs

\* Diff.init, after its loop: the trailing group is appended when not empty.
FlushGroup(gs, group) ==
    IF Len(group) > 0 THEN Append(gs, group) ELSE gs

\* Diff.init's loop from the edit idx on.
RECURSIVE initLoop(_, _, _, _, _)
initLoop(es, idx, previousLine, group, gs) ==
    IF idx >= Len(es) THEN FlushGroup(gs, group)
    ELSE LET thisLine == es[idx + 1].Span.End
         IN IF previousLine = -1
            THEN initLoop(es, idx + 1, thisLine, Append(group, idx), gs)
            ELSE IF Adjacent(thisLine, previousLine)
            THEN initLoop(es, idx + 1, thisLine, Append(group, idx), gs)
            ELSE initLoop(es, idx + 1, thisLine, <<idx>>, Append(gs, group))

\* Diff.init: the groups of the edits es.
init(es) == initLoop(es, 0, -1, <<>>, <<>>)

\* Diff.abPaths
abPaths ==
    LET slash == IF path # <<>> /\ path[1] # "/" THEN <<"/">> ELSE <<>>
    IN [a |-> <<"a">> \o slash \o path, b |-> <<"b">> \o slash \o path]

\* Diff.Len
DiffLen == Len(edits)

\* Diff.KeepLen
KeepLen == Cardinality(keep)

\* Diff.EditGroupsLen
EditGroupsLen == Len(groups)

\* The range test of KeepEdit and SkipEdit.
InRange(index) == DiffLen > 0 /\ index >= 0 /\ index < DiffLen

\* The range test of GetEdit and SetEdit.
ValidIndex(index) == index >= 0 /\ index < DiffLen

\* The range test of EditGroup, KeepGroup and SkipGroup.
ValidGroup(index) == index >= 0 /\ index < Len(groups)

\* KeepAllKeep with the bug of a loop that stops one edit early.
KeepAllKeepButLast == {idx \in 0..(DiffLen - 2) : TRUE}

\* Diff.KeepAll: the map it builds.
KeepAllKeep == {idx \in 0..(DiffLen - 1) : TRUE}

\* SkipAllKeep with the bug of a map that still holds the first edit.
SkipAllKeepFirst == {idx \in 0..(DiffLen - 1) : idx = 0}

\* Diff.SkipAll: the map it builds.
SkipAllKeep == {}

\* KeepEditKeep with the bug of no range test.
KeepEditKeepUnchecked(k, index) == k \cup {index}

\* Diff.KeepEdit on the map k: the map it leaves.
KeepEditKeep(k, index) ==
    IF InRange(index) THEN (IF index \notin k THEN k \cup {index} ELSE k)
    ELSE k

\* Diff.KeepEdit: its result.
KeepEditOk(k, index) == InRange(index)

\* SkipEditKeep with the bug of never deleting the key.
SkipEditKeepNoDelete(k, index) == k

\* Diff.SkipEdit on the map k: the map it leaves.
SkipEditKeep(k, index) ==
    IF InRange(index) THEN (IF index \in k THEN k \ {index} ELSE k)
    ELSE k

\* Diff.SkipEdit: its result, the `ok` of the map lookup.
SkipEditOk(k, index) == IF InRange(index) THEN index \in k ELSE FALSE

\* Diff.KeepGroup's loop over the indices of a group.
RECURSIVE KeepGroupLoop(_, _)
KeepGroupLoop(k, gids) ==
    IF gids = <<>> THEN k
    ELSE KeepGroupLoop(KeepEditKeep(k, Head(gids)), Tail(gids))

\* KeepGroupKeep with the bug of a loop that skips the group's first index.
KeepGroupKeepTail(index) ==
    IF ValidGroup(index)
    THEN KeepGroupLoop(keep, Tail(groups[index + 1]))
    ELSE keep

\* Diff.KeepGroup: the map it leaves.
KeepGroupKeep(index) ==
    IF ValidGroup(index) THEN KeepGroupLoop(keep, groups[index + 1]) ELSE keep

\* Diff.SkipGroup's loop over the indices of a group.
RECURSIVE SkipGroupLoop(_, _)
SkipGroupLoop(k, gids) ==
    IF gids = <<>> THEN k
    ELSE SkipGroupLoop(SkipEditKeep(k, Head(gids)), Tail(gids))

\* Diff.SkipGroup: the map it leaves.
SkipGroupKeep(index) ==
    IF ValidGroup(index) THEN SkipGroupLoop(keep, groups[index + 1]) ELSE keep

\* KeptEdits with the bug of ranging over the map itself, unsorted.
KeptEditsUnsorted(order) ==
    [i \in 1..Len(order) |-> edits[order[i] + 1]]

\* The loop of UnifiedEdits and ModifiedEdits: the kept edits, in the order
\* of maps.SortedNumbers over the map read in the iteration order `order`.
KeptEdits(order) ==
    LET sorted == SortedNumbers(order)
    IN [i \in 1..Len(sorted) |-> edits[sorted[i] + 1]]

\* ModifiedEditsResult with the bug of handing back, with the error, the text
\* built from the edits that apply.
ModifiedEditsResultPartial(es) ==
    LET Within(e) == ~EditsFault(source, <<e>>)
    IN IF EditsFault(source, es)
       THEN [modified |-> ApplyEdits(source, SelectSeq(es, Within)),
             err |-> "gotextdiff error", panicked |-> FALSE]
       ELSE [modified |-> ApplyEdits(source, es), err |-> Nil,
             panicked |-> FALSE]

\* Diff.ModifiedEdits on the kept edits es: ApplyEdits' result, or, when it
\* faults, the recovered fault as the error and `modified` never assigned.
ModifiedEditsResult(es) ==
    IF EditsFault(source, es)
    THEN [modified |-> EmptyText, err |-> "gotextdiff error",
          panicked |-> FALSE]
    ELSE [modified |-> ApplyEdits(source, es), err |-> Nil,
          panicked |-> FALSE]

\* The loop of EditGroup: the edits of a group.
GroupEdits(index) ==
    [i \in 1..Len(groups[index + 1]) |-> edits[groups[index + 1][i] + 1]]

\* SetEditEdits with the bug of a write to every edit.
SetEditEditsAll(index, t) ==
    IF ValidIndex(index)
    THEN [i \in 1..Len(edits) |-> [edits[i] EXCEPT !.NewText = t]]
    ELSE edits

\* Diff.SetEdit: the edits it leaves.
SetEditEdits(index, t) ==
    IF ValidIndex(index) THEN [edits EXCEPT ![index + 1].NewText = t]
    ELSE edits

\* ---------------------------------------------------------- render: values

\* A MarkupTag, and the AddRemTags of two.
MarkupTag(open, close) == [Open |-> open, Close |-> close]
AddRemTags(add, rem) == [Add |-> add, Rem |-> rem]

\* The zero value of CRender, as NewRenderer allocates it: every markup
\* string is empty.
ZeroCRender ==
    LET zero == MarkupTag(<<>>, <<>>)
    IN [File |-> zero, Normal |-> zero, Comment |-> zero,
        Line |-> AddRemTags(zero, zero), Text |-> AddRemTags(zero, zero)]

\* The nil *renderBatch; a batch pointer that is not nil is <<b>>.
NilBatch == <<>>

\* No line of a batch.
NoSlots == [d |-> <<>>, a |-> <<>>]

\* The render engine before NewRenderer: nothing allocated, nothing rendered.
IdleRender ==
    [heap |-> <<>>, renderer |-> 0, clone |-> [from |-> 0, to |-> 0],
     nset |-> 0, unified |-> <<>>, original |-> <<>>, scanIdx |-> 0,
     outLines |-> <<>>, batch |-> NilBatch, slots |-> NoSlots, log |-> <<>>,
     markup |-> <<>>, pc |-> "idle", diffs |-> <<>>, ma |-> <<>>,
     mb |-> <<>>]

RenderIdle == render = IdleRender

\* ---------------------------------------------------------------- actions

NoHist == [stage |-> "none", index |-> NoArg, len0 |-> 0, present0 |-> FALSE]

\* What a call hands back to its caller.
Returns(o, a, okv, textv, errv, pan) ==
    /\ op' = o
    /\ arg' = a
    /\ ok' = okv
    /\ text' = textv
    /\ err' = errv
    /\ panicked' = pan

\* A call that writes neither the map nor the edits.
ReadOnly ==
    UNCHANGED <<path, source, changed, edits, keep, groups, setCalled, rvars>>

\* The index arguments of the calls: every valid one and one beyond each end.
EditArgs == -1..DiffLen
GroupArgs == -1..Len(groups)

\* A unified diff of the edits es, or the panic of the formatting.
Unifies(o, a, es) ==
    IF EditsFault(source, es)
    THEN Returns(o, a, FALSE, EmptyText, Nil, TRUE)
    ELSE Returns(o, a, FALSE, ToUnified(abPaths.a, abPaths.b, source, es),
                 Nil, FALSE)

New(p, src, chg, es) ==
    /\ path = p
    /\ source = src
    /\ changed = chg
    /\ edits = es
    /\ keep = {}
    /\ groups = init(es)
    /\ op = "New"
    /\ arg = NoArg
    /\ ok = FALSE
    /\ text = EmptyText
    /\ err = Nil
    /\ panicked = FALSE
    /\ setCalled = FALSE
    /\ hist = NoHist

Unified ==
    /\ Unifies("Unified", NoArg, edits)
    /\ hist' = NoHist
    /\ ReadOnly

KeepAll ==
    /\ keep' = KeepAllKeep
    /\ Returns("KeepAll", NoArg, FALSE, EmptyText, Nil, FALSE)
    /\ hist' = [NoHist EXCEPT !.stage = "keptAll"]
    /\ UNCHANGED <<path, source, changed, edits, groups, setCalled, rvars>>

KeepEdit(index) ==
    /\ keep' = KeepEditKeep(keep, index)
    /\ Returns("KeepEdit", index, KeepEditOk(keep, index), EmptyText, Nil,
               FALSE)
    /\ hist' = [stage |-> "kept", index |-> index, len0 |-> KeepLen,
                present0 |-> index \in keep]
    /\ UNCHANGED <<path, source, changed, edits, groups, setCalled, rvars>>

SkipAll ==
    /\ keep' = SkipAllKeep
    /\ Returns("SkipAll", NoArg, FALSE, EmptyText, Nil, FALSE)
    /\ hist' = [NoHist EXCEPT !.stage = "skippedAll"]
    /\ UNCHANGED <<path, source, changed, edits, groups, setCalled, rvars>>

SkipEdit(index) ==
    /\ keep' = SkipEditKeep(keep, index)
    /\ Returns("SkipEdit", index, SkipEditOk(keep, index), EmptyText, Nil,
               FALSE)
    /\ hist' = IF hist.stage = "kept" /\ hist.index = index
               THEN [hist EXCEPT !.stage = "done"]
               ELSE NoHist
    /\ UNCHANGED <<path, source, changed, edits, groups, setCalled, rvars>>

\* d.edits[index] is not guarded: an index out of range panics.
UnifiedEdit(index) ==
    /\ IF ValidIndex(index)
       THEN Unifies("UnifiedEdit", index, <<edits[index + 1]>>)
       ELSE Returns("UnifiedEdit", index, FALSE, EmptyText, Nil, TRUE)
    /\ hist' = NoHist
    /\ ReadOnly

UnifiedEdits ==
    /\ \E order \in IterationOrders(keep) :
          Unifies("UnifiedEdits", NoArg, KeptEdits(order))
    /\ hist' = NoHist
    /\ ReadOnly

ModifiedEdits ==
    /\ \E order \in IterationOrders(keep) :
          LET r == ModifiedEditsResult(KeptEdits(order))
          IN Returns("ModifiedEdits", NoArg, FALSE, r.modified, r.err,
                     r.panicked)
    /\ hist' = IF hist.stage = "keptAll"
               THEN [NoHist EXCEPT !.stage = "keptAllModified"]
               ELSE IF hist.stage = "skippedAll"
               THEN [NoHist EXCEPT !.stage = "skippedAllModified"]
               ELSE NoHist
    /\ ReadOnly

EditGroup(index) ==
    /\ IF ValidGroup(index)
       THEN Unifies("EditGroup", index, GroupEdits(index))
       ELSE Returns("EditGroup", index, FALSE, EmptyText, Nil, FALSE)
    /\ hist' = NoHist
    /\ ReadOnly

KeepGroup(index) ==
    /\ keep' = KeepGroupKeep(index)
    /\ Returns("KeepGroup", index, FALSE, EmptyText, Nil, FALSE)
    /\ hist' = NoHist
    /\ UNCHANGED <<path, source, changed, edits, groups, setCalled, rvars>>

SkipGroup(index) ==
    /\ keep' = SkipGroupKeep(index)
    /\ Returns("SkipGroup", index, FALSE, EmptyText, Nil, FALSE)
    /\ hist' = NoHist
    /\ UNCHANGED <<path, source, changed, edits, groups, setCalled, rvars>>

GetEdit(index) ==
    /\ Returns("GetEdit", index, ValidIndex(index),
               IF ValidIndex(index) THEN edits[index + 1].NewText
               ELSE EmptyText, Nil, FALSE)
    /\ hist' = NoHist
    /\ ReadOnly

SetEdit(index, t) ==
    /\ setCalled' = TRUE
    /\ edits' = SetEditEdits(index, t)
    /\ Returns("SetEdit", index, ValidIndex(index), EmptyText, Nil, FALSE)
    /\ hist' = NoHist
    /\ UNCHANGED <<path, source, changed, keep, groups, rvars>>

Init ==
    \E p \in Paths, src \in Sources : \E es \in ComputeEdits(src) :
        New(p, src, ApplyEdits(src, es), es) /\ RenderIdle

Next ==
    \/ Unified
    \/ KeepAll
    \/ SkipAll
    \/ UnifiedEdits
    \/ ModifiedEdits
    \/ \E index \in EditArgs : KeepEdit(index)
    \/ \E index \in EditArgs : SkipEdit(index)
    \/ \E index \in EditArgs : UnifiedEdit(index)
    \/ \E index \in EditArgs : GetEdit(index)
    \/ \E index \in EditArgs, t \in SetTexts : SetEdit(index, t)
    \/ \E index \in GroupArgs : EditGroup(index)
    \/ \E index \in GroupArgs : KeepGroup(index)
    \/ \E index \in GroupArgs : SkipGroup(index)

Spec == Init /\ [][Next]_vars

\* A Diff whose edits the edit computation returned with a point beyond the
\* end of the source: the edit sets on which the collaborators fault.
InitFault ==
    \E p \in Paths, src \in Sources :
        \E es \in UNION {EditScripts(m, Len(src) + 2) : m \in 0..MaxEdits} :
            LET Within(e) == ~EditsFault(src, <<e>>)
            IN /\ EditsFault(src, es)
               /\ New(p, src, ApplyEdits(src, SelectSeq(es, Within)), es)
               /\ RenderIdle

SpecFault == InitFault /\ [][Next]_vars

\* --------------------------------------------------- render: configuration

\* Most Set calls made on the builders, and most Clone calls.
MaxSets == 3
MaxClones == 1

\* The markup strings the Set calls are given.
OpenTags == {<<"<t>">>}
CloseTags == {<<"</t>">>}

\* The CRender values allocated, by pointer.
Pointers == 1..Len(heap)

\* A Set call on the pointer p: the CRender it leaves there.
SetOn(p, c) ==
    /\ nset < MaxSets
    /\ render' = [render EXCEPT !.nset = @ + 1, !.heap[p] = c]
    /\ UNCHANGED dvars

SetFile(p, open, close) ==
    SetOn(p, [heap[p] EXCEPT !.File = MarkupTag(open, close)])

SetNormal(p, open, close) ==
    SetOn(p, [heap[p] EXCEPT !.Normal = MarkupTag(open, close)])

SetComment(p, open, close) ==
    SetOn(p, [heap[p] EXCEPT !.Comment = MarkupTag(open, close)])

SetLineAdded(p, open, close) ==
    SetOn(p, [heap[p] EXCEPT !.Line.Add = MarkupTag(open, close)])

SetTextAdded(p, open, close) ==
    SetOn(p, [heap[p] EXCEPT !.Text.Add = MarkupTag(open, close)])

SetLineRemoved(p, open, close) ==
    SetOn(p, [heap[p] EXCEPT !.Line.Rem = MarkupTag(open, close)])

SetTextRemoved(p, open, close) ==
    SetOn(p, [heap[p] EXCEPT !.Text.Rem = MarkupTag(open, close)])

\* CRender.Make returns r itself: the Renderer is the builder's pointer.
Make(p) ==
    /\ render' = [render EXCEPT !.renderer = p]
    /\ UNCHANGED dvars

\* CloneHeap with the bug of a clone that is not a copy.
CloneHeapZero(p) == Append(heap, ZeroCRender)

\* CRender.Clone: `clone := *r` allocates a copy of the value at p.
CloneHeap(p) == Append(heap, heap[p])

\* Clone is a method of the Renderer, the pointer Make returned.
Clone(p) ==
    /\ p = renderer
    /\ Len(heap) <= MaxClones
    /\ render' = [render EXCEPT !.heap = CloneHeap(p),
                                 !.clone = [from |-> p, to |-> Len(heap) + 1]]
    /\ UNCHANGED dvars

\* The Diff engine while the render engine runs: a Diff without edits, and
\* no call on it.
DiffIdle == New(<<"f">>, <<>>, <<>>, <<>>)

\* NewRenderer: one CRender of zero value.
InitConfig ==
    /\ DiffIdle
    /\ render = [IdleRender EXCEPT !.heap = <<ZeroCRender>>, !.pc = "config"]

NextConfig ==
    \/ \E p \in Pointers, open \in OpenTags, close \in CloseTags :
          SetFile(p, open, close)
    \/ \E p \in Pointers, open \in OpenTags, close \in CloseTags :
          SetNormal(p, open, close)
    \/ \E p \in Pointers, open \in OpenTags, close \in CloseTags :
          SetComment(p, open, close)
    \/ \E p \in Pointers, open \in OpenTags, close \in CloseTags :
          SetLineAdded(p, open, close)
    \/ \E p \in Pointers, open \in OpenTags, close \in CloseTags :
          SetTextAdded(p, open, close)
    \/ \E p \in Pointers, open \in OpenTags, close \in CloseTags :
          SetLineRemoved(p, open, close)
    \/ \E p \in Pointers, open \in OpenTags, close \in CloseTags :
          SetTextRemoved(p, open, close)
    \/ \E p \in Pointers : Make(p)
    \/ \E p \in Pointers : Clone(p)

SpecConfig == InitConfig /\ [][NextConfig]_vars

\* ------------------------------------------------- render: collaborators

\* strings.Split(s, "\n"): the pieces of s between the line feeds, from the
\* piece cur under way on.
RECURSIVE SplitLoop(_, _)
SplitLoop(s, cur) ==
    IF s = <<>> THEN <<cur>>
    ELSE IF Head(s) = "\n" THEN <<cur>> \o SplitLoop(Tail(s), <<>>)
    ELSE SplitLoop(Tail(s), Append(cur, Head(s)))

Split(s) == SplitLoop(s, <<>>)

\* html.EscapeString: the five characters it replaces, one at a time.
EscapeChar(c) ==
    CASE c = "<" -> <<"&", "l", "t", ";">>
      [] c = ">" -> <<"&", "g", "t", ";">>
      [] c = "&" -> <<"&", "a", "m", "p", ";">>
      [] c = "'" -> <<"&", "#", "3", "9", ";">>
      [] c = "\"" -> <<"&", "#", "3", "4", ";">>
      [] OTHER -> <<c>>

RECURSIVE EscapeString(_)
EscapeString(s) ==
    IF s = <<>> THEN <<>>
    ELSE EscapeChar(Head(s)) \o EscapeString(Tail(s))

\* The length of the longest common prefix of a and b.
RECURSIVE CommonPrefix(_, _)
CommonPrefix(a, b) ==
    IF a = <<>> \/ b = <<>> \/ Head(a) # Head(b) THEN 0
    ELSE 1 + CommonPrefix(Tail(a), Tail(b))

\* The length of the longest common suffix of a and b.
RECURSIVE CommonSuffix(_, _)
CommonSuffix(a, b) ==
    IF a = <<>> \/ b = <<>> \/ a[Len(a)] # b[Len(b)] THEN 0
    ELSE 1 + CommonSuffix(SubSeq(a, 1, Len(a) - 1), SubSeq(b, 1, Len(b) - 1))

\* One segment of a character diff.
Segment(type, t) == [Type |-> type, Text |-> t]

\* diffmatchpatch.DiffMain(a, b, false) on short lines: the common prefix,
\* the rest of a deleted, the rest of b inserted, the common suffix; no
\* segment is empty.
DiffMain(a, b) ==
    LET p == CommonPrefix(a, b)
        ra == SubSeq(a, p + 1, Len(a))
        rb == SubSeq(b, p + 1, Len(b))
        q == CommonSuffix(ra, rb)
        da == SubSeq(ra, 1, Len(ra) - q)
        db == SubSeq(rb, 1, Len(rb) - q)
    IN (IF p > 0 THEN <<Segment("DiffEqual", SubSeq(a, 1, p))>> ELSE <<>>)
       \o (IF da # <<>> THEN <<Segment("DiffDelete", da)>> ELSE <<>>)
       \o (IF db # <<>> THEN <<Segment("DiffInsert", db)>> ELSE <<>>)
       \o (IF q > 0
           THEN <<Segment("DiffEqual", SubSeq(ra, Len(ra) - q + 1, Len(ra)))>>
           ELSE <<>>)

\* ------------------------------------------------------- render: RenderLine

\* RenderLineLoop with the bug of an addition that goes to both results.
RECURSIVE RenderLineLoopBoth(_, _, _, _)
RenderLineLoopBoth(c, ds, xa, xb) ==
    IF ds = <<>> THEN [ma |-> xa, mb |-> xb]
    ELSE LET diff == Head(ds)
             t == EscapeString(diff.Text)
         IN IF diff.Type = "DiffDelete"
            THEN RenderLineLoopBoth(c, Tail(ds),
                     xa \o c.Text.Rem.Open \o t \o c.Text.Rem.Close, xb)
            ELSE IF diff.Type = "DiffInsert"
            THEN RenderLineLoopBoth(c, Tail(ds), xa \o t,
                     xb \o c.Text.Add.Open \o t \o c.Text.Add.Close)
            ELSE RenderLineLoopBoth(c, Tail(ds), xa \o t, xb \o t)

\* The loop of CRender.RenderLine over the segments ds, from the results xa
\* and xb so far, with the configuration c.
RECURSIVE RenderLineLoop(_, _, _, _)
RenderLineLoop(c, ds, xa, xb) ==
    IF ds = <<>> THEN [ma |-> xa, mb |-> xb]
    ELSE LET diff == Head(ds)
             t == EscapeString(diff.Text)
         IN IF diff.Type = "DiffDelete"
            THEN RenderLineLoop(c, Tail(ds),
                     xa \o c.Text.Rem.Open \o t \o c.Text.Rem.Close, xb)
            ELSE IF diff.Type = "DiffInsert"
            THEN RenderLineLoop(c, Tail(ds), xa,
                     xb \o c.Text.Add.Open \o t \o c.Text.Add.Close)
            ELSE RenderLineLoop(c, Tail(ds), xa \o t, xb \o t)

\* CRender.RenderLine(a, b) with the configuration c.
RenderLineOf(c, a, b) == RenderLineLoop(c, DiffMain(a, b), <<>>, <<>>)

\* ------------------------------------------------------- render: RenderDiff

\* Most lines of a unified diff after its two header lines.
MaxBody == 4

\* The two header lines of the unified diffs, and the lines after them: an
\* empty line, two removed lines, an added line, a context line, and a line
\* of each character of a comment.
HeaderLines == << <<"-", "-", "-">>, <<"+", "+", "+">> >>
BodyLines ==
    { <<>>, <<"-", "a", "<">>, <<"-", "b">>, <<"+", "a", "&">>, <<" ", "a">>,
      <<"@">>, <<"#">>, <<"\\">> }

\* strings.Join(ls, "\n").
RECURSIVE JoinLines(_)
JoinLines(ls) ==
    IF ls = <<>> THEN <<>>
    ELSE IF Len(ls) = 1 THEN ls[1]
    ELSE ls[1] \o <<"\n">> \o JoinLines(Tail(ls))

\* The arguments of RenderDiff: the empty string, and the header lines with
\* up to MaxBody lines after them.
Unifieds ==
    {<<>>} \cup
    {JoinLines(HeaderLines \o b) :
        b \in UNION {[1..n -> BodyLines] : n \in 0..MaxBody}}

\* A CRender on which every Set call was made, each with its own strings.
MarkedCRender ==
    [File |-> MarkupTag(<<"<file>">>, <<"</file>">>),
     Normal |-> MarkupTag(<<"<n>">>, <<"</n>">>),
     Comment |-> MarkupTag(<<"<c>">>, <<"</c>">>),
     Line |-> AddRemTags(MarkupTag(<<"<la>">>, <<"</la>">>),
                         MarkupTag(<<"<lr>">>, <<"</lr>">>)),
     Text |-> AddRemTags(MarkupTag(<<"<ta>">>, <<"</ta>">>),
                         MarkupTag(<<"<tr>">>, <<"</tr>">>))]

\* &renderBatch{}, renderBatch.add and renderBatch.rem.
NewBatch == [d |-> <<>>, a |-> <<>>]
BatchAdd(b, t) == [b EXCEPT !.a = Append(@, t)]
BatchRem(b, t) == [b EXCEPT !.d = Append(@, t)]

\* AddAt with the bug of an index one too high.
AddAtNext(lastIdx, b, i) == lastIdx - Len(b.a) + i + 1

\* processRenderDiffBatch: the indices of lines it writes for the pair i.
RemAt(lastIdx, b, i) == lastIdx - Len(b.d) - Len(b.a) + i
AddAt(lastIdx, b, i) == lastIdx - Len(b.a) + i

\* Whether (*lines)[i] is in range.
InLines(ls, i) == 0 <= i /\ i < Len(ls)

\* Paired with the bug of a loop that stops after the first pair.
PairedFirst(b, i) == i < Len(b.a) /\ i < 1

\* processRenderDiffBatch: `idx < numAdd`, whether removal i has an addition.
Paired(b, i) == i < Len(b.a)

\* The loop of processRenderDiffBatch from the removal i on; an index out of
\* range is a panic.
RECURSIVE FlushLoop(_, _, _, _, _)
FlushLoop(c, lastIdx, ls, b, i) ==
    IF i >= Len(b.d) THEN [lines |-> ls, fault |-> FALSE]
    ELSE IF Paired(b, i)
    THEN LET r == RenderLineOf(c, b.d[i + 1], b.a[i + 1])
             pd == RemAt(lastIdx, b, i)
             pa == AddAt(lastIdx, b, i)
         IN IF ~InLines(ls, pd) \/ ~InLines(ls, pa)
            THEN [lines |-> ls, fault |-> TRUE]
            ELSE FlushLoop(c, lastIdx,
                     [[ls EXCEPT ![pd + 1] = <<"-">> \o r.ma]
                         EXCEPT ![pa + 1] = <<"+">> \o r.mb],
                     b, i + 1)
    ELSE FlushLoop(c, lastIdx, ls, b, i + 1)

\* CRender.processRenderDiffBatch: the lines it leaves.
processRenderDiffBatch(c, lastIdx, ls, bp) ==
    IF bp = NilBatch THEN [lines |-> ls, fault |-> FALSE]
    ELSE IF Len(bp[1].d) > 0 /\ Len(bp[1].a) > 0
    THEN FlushLoop(c, lastIdx, ls, bp[1], 0)
    ELSE [lines |-> ls, fault |-> FALSE]

\* The pairs a flush rewrites: for each, the indices written, the indices at
\* which the two lines were put out, and the lines and lastIdx of the flush.
FlushPairs(lastIdx, ls, bp, sl) ==
    IF bp = NilBatch THEN <<>>
    ELSE LET b == bp[1]
             n == IF Len(b.d) < Len(b.a) THEN Len(b.d) ELSE Len(b.a)
         IN [k \in 1..n |->
                [rem |-> RemAt(lastIdx, b, k - 1),
                 add |-> AddAt(lastIdx, b, k - 1),
                 remSlot |-> sl.d[k], addSlot |-> sl.a[k],
                 size |-> Len(ls), lastIdx |-> lastIdx]]

\* A step of the scan that flushes the batch, and one that does not.
Flushed(c, lastIdx, ls, bp, sl) ==
    LET f == processRenderDiffBatch(c, lastIdx, ls, bp)
    IN [lines |-> f.lines, batch |-> NilBatch, slots |-> NoSlots,
        pairs |-> FlushPairs(lastIdx, ls, bp, sl), fault |-> f.fault]

Carried(ls, bp, sl) ==
    [lines |-> ls, batch |-> bp, slots |-> sl, pairs |-> <<>>,
     fault |-> FALSE]

\* StartsNewRun with the bug of a run that is never closed by a removal.
StartsNewRunNever(b) == FALSE

\* prepareRenderDiff: `len(batch.a) > 0`, a removal after additions.
StartsNewRun(b) == Len(b.a) > 0

\* The body of prepareRenderDiff's loop for the line at index i.
prepareStep(c, i, line, ls0, bp, sl) ==
    IF i < 2 THEN Carried(Append(ls0, line), bp, sl)
    ELSE IF Len(line) = 0 THEN Flushed(c, i, Append(ls0, <<>>), bp, sl)
    ELSE LET ls == Append(ls0, <<line[1]>> \o EscapeString(Tail(line)))
             rest == Tail(line)
             opened == [d |-> <<i>>, a |-> <<>>]
         IN IF bp = NilBatch
            THEN IF line[1] = "-"
                 THEN Carried(ls, <<BatchRem(NewBatch, rest)>>, opened)
                 ELSE Carried(ls, NilBatch, NoSlots)
            ELSE IF line[1] = "-"
            THEN IF StartsNewRun(bp[1])
                 THEN [Flushed(c, i, ls, bp, sl) EXCEPT
                          !.batch = <<BatchRem(NewBatch, rest)>>,
                          !.slots = opened]
                 ELSE Carried(ls, <<BatchRem(bp[1], rest)>>,
                              [sl EXCEPT !.d = Append(@, i)])
            ELSE IF line[1] = "+"
            THEN Carried(ls, <<BatchAdd(bp[1], rest)>>,
                         [sl EXCEPT !.a = Append(@, i)])
            ELSE Flushed(c, i, ls, bp, sl)

\* ClassTag with the bug of a hunk line taken for a normal line.
ClassTagNoHunk(c, ch) ==
    CASE ch = "+" -> c.Line.Add
      [] ch = "-" -> c.Line.Rem
      [] ch \in {"\\", "#"} -> c.Comment
      [] OTHER -> c.Normal

\* RenderDiff's switch: the markup of a line by its first character.
ClassTag(c, ch) ==
    CASE ch = "+" -> c.Line.Add
      [] ch = "-" -> c.Line.Rem
      [] ch \in {"@", "\\", "#"} -> c.Comment
      [] OTHER -> c.Normal

\* RenderDiff's loop over the prepared lines: an empty line puts out nothing.
RECURSIVE MarkupLoop(_, _)
MarkupLoop(c, ls) ==
    IF ls = <<>> THEN <<>>
    ELSE LET line == Head(ls)
         IN (IF Len(line) > 0
             THEN ClassTag(c, line[1]).Open \o line
                  \o ClassTag(c, line[1]).Close \o <<"\n">>
             ELSE <<>>)
            \o MarkupLoop(c, Tail(ls))

\* RenderDiff is called: the argument is split into lines.
RenderDiffCall ==
    /\ pc = "ready"
    /\ render' = [render EXCEPT !.original = Split(unified), !.pc = "scan"]
    /\ UNCHANGED dvars

\* One turn of prepareRenderDiff's loop.
ScanLine ==
    /\ pc = "scan"
    /\ scanIdx < Len(original)
    /\ LET st == prepareStep(heap[renderer], scanIdx, original[scanIdx + 1],
                             outLines, batch, slots)
       IN render' = [render EXCEPT
                        !.outLines = st.lines,
                        !.batch = st.batch,
                        !.slots = st.slots,
                        !.log = @ \o st.pairs,
                        !.pc = IF st.fault THEN "panic" ELSE "scan",
                        !.scanIdx = @ + 1]
    /\ UNCHANGED dvars

\* The end of prepareRenderDiff: the flush after the last line.
ScanEnd ==
    /\ pc = "scan"
    /\ scanIdx = Len(original)
    /\ LET st == Flushed(heap[renderer], Len(original), outLines, batch,
                         slots)
       IN render' = [render EXCEPT
                        !.outLines = st.lines,
                        !.batch = st.batch,
                        !.slots = st.slots,
                        !.log = @ \o st.pairs,
                        !.pc = IF st.fault THEN "panic" ELSE "prepared"]
    /\ UNCHANGED dvars

\* RenderDiff's loop over the prepared lines, and the File markup around it.
RenderDiffReturn ==
    /\ pc = "prepared"
    /\ render' = [render EXCEPT
                     !.markup = heap[renderer].File.Open
                                \o MarkupLoop(heap[renderer], outLines)
                                \o heap[renderer].File.Close,
                     !.pc = "rendered"]
    /\ UNCHANGED dvars

\* A Renderer made from a builder on which every Set call was made, and a
\* unified diff to render.
InitRender ==
    /\ DiffIdle
    /\ \E u \in Unifieds :
          render = [IdleRender EXCEPT !.heap = <<MarkedCRender>>,
                                      !.renderer = 1,
                                      !.unified = u,
                                      !.pc = "ready"]

NextRender ==
    \/ RenderDiffCall
    \/ ScanLine
    \/ ScanEnd
    \/ RenderDiffReturn

SpecRender == InitRender /\ [][NextRender]_vars

\* ------------------------------------------- render: RenderLine, called

\* Most segments of a character diff.
MaxSegs == 3

\* The texts of the segments, and the character diffs DiffMain returns.
SegmentTexts == {<<"a">>, <<"<">>}
SegmentTypes == {"DiffDelete", "DiffInsert", "DiffEqual"}
SegmentSeqs ==
    UNION {[1..n -> [Type : SegmentTypes, Text : SegmentTexts]] :
              n \in 0..MaxSegs}

\* The two lines a character diff is the diff of: the segments that are not
\* insertions make up a, those that are not deletions make up b.
RECURSIVE SideOf(_, _)
SideOf(ds, other) ==
    IF ds = <<>> THEN <<>>
    ELSE (IF Head(ds).Type = other THEN <<>> ELSE Head(ds).Text)
         \o SideOf(Tail(ds), other)

\* CRender.RenderLine(a, b), from the segments DiffMain(a, b) returned.
RenderLine ==
    /\ pc = "line"
    /\ LET r == RenderLineLoop(heap[renderer], diffs, <<>>, <<>>)
       IN render' = [render EXCEPT !.ma = r.ma, !.mb = r.mb,
                                    !.pc = "lineDone"]
    /\ UNCHANGED dvars

\* A Renderer with every markup string set, and a character diff.
InitLine ==
    /\ DiffIdle
    /\ \E ds \in SegmentSeqs :
          render = [IdleRender EXCEPT !.heap = <<MarkedCRender>>,
                                      !.renderer = 1,
                                      !.diffs = ds,
                                      !.pc = "line"]

NextLine == RenderLine

SpecLine == InitLine /\ [][NextLine]_vars

\* ------------------------------------------------------------------ claims

\* The edit indices of the group g.
Members(g) == {groups[g + 1][i] : i \in 1..Len(groups[g + 1])}

\* The kept edits, picked from the edits in ascending index order.
RECURSIVE KeptAscending(_)
KeptAscending(i) ==
    IF i >= DiffLen THEN <<>>
    ELSE (IF i \in keep THEN <<edits[i + 1]>> ELSE <<>>)
         \o KeptAscending(i + 1)

\* The calls addressed by an edit index, and those addressed by a group index.
EditIndexed == {"KeepEdit", "SkipEdit", "GetEdit", "SetEdit", "UnifiedEdit"}
GroupIndexed == {"KeepGroup", "SkipGroup", "EditGroup"}

\* C1 as claimed: after KeepEdit(i) and then SkipEdit(i), from any keep set
\* (also one that holds i already) and for any i, KeepLen() is what it was
\* before the KeepEdit(i).
C1_InverseLaw ==
    hist.stage = "done" => KeepLen = hist.len0

\* C1 amended: after KeepEdit(i) and then SkipEdit(i), KeepLen() is what it
\* was before the KeepEdit(i) when i was not in keep (valid or out of range),
\* and one less when i was in keep already.
C1_InverseLawAmended ==
    hist.stage = "done" =>
        KeepLen = (IF hist.present0 THEN hist.len0 - 1 ELSE hist.len0)

\* C1's case: the pair of calls has run on a valid index that was not kept.
C1_Witness ==
    /\ hist.stage = "done"
    /\ op = "SkipEdit"
    /\ InRange(hist.index)
    /\ ~hist.present0
    /\ hist.len0 > 0

\* C2 as claimed: KeepEdit(i) and SkipEdit(i) each return true exactly when
\* 0 <= i < Len(), whether or not i is kept.
C2_OkIffInRange ==
    op \in {"KeepEdit", "SkipEdit"} => (ok <=> (0 <= arg /\ arg < DiffLen))

\* C3 as claimed: a call addressed by an edit index or a group index that is
\* out of range returns without a panic and leaves keep, edits and groups as
\* they were.
C3_OutOfRangeNoFault ==
    [][((op' \in EditIndexed /\ ~(0 <= arg' /\ arg' < DiffLen))
        \/ (op' \in GroupIndexed /\ ~(0 <= arg' /\ arg' < EditGroupsLen)))
       => (~panicked' /\ keep' = keep /\ edits' = edits
           /\ groups' = groups)]_vars

\* C4: on a Diff on which SetEdit was not called, ModifiedEdits() right after
\* KeepAll() returns the changed text and a nil error, whatever was kept or
\* skipped before.
C4_RoundTrip ==
    (hist.stage = "keptAllModified" /\ ~setCalled) =>
        (text = changed /\ err = Nil /\ ~panicked)

\* C4's case: the pair has run on a Diff with edits, after a skip.
C4_Witness ==
    /\ hist.stage = "keptAllModified"
    /\ ~setCalled
    /\ DiffLen = MaxEdits
    /\ changed # source

\* C5: UnifiedEdits() and ModifiedEdits() give the unified diff and the text
\* of exactly the kept edits in ascending index order, so they depend on the
\* keep set alone and not on the order the map yields its keys in.
C5_KeptAscending ==
    /\ (op = "UnifiedEdits" /\ ~panicked) =>
          text = ToUnified(abPaths.a, abPaths.b, source, KeptAscending(0))
    /\ (op = "ModifiedEdits" /\ err = Nil) =>
          text = ApplyEdits(source, KeptAscending(0))

\* C5's case: two kept edits insert at the same point, where the order in
\* which the edits are handed over decides the text.
C5_Witness ==
    /\ op \in {"UnifiedEdits", "ModifiedEdits"}
    /\ \E i, j \in keep :
          i < j /\ edits[i + 1].Span = edits[j + 1].Span
                /\ edits[i + 1].NewText # edits[j + 1].NewText

\* C6: when ModifiedEdits() returns an error, its text is empty, the fault is
\* not passed on as a panic, and the call has left keep and edits as they were.
C6_FaultReported ==
    [][(op' = "ModifiedEdits" /\ err' # Nil)
       => (text' = EmptyText /\ ~panicked' /\ keep' = keep
           /\ edits' = edits)]_vars

\* C6's case: ModifiedEdits() has returned an error with other edits kept
\* that apply.
C6_Witness ==
    /\ op = "ModifiedEdits"
    /\ err # Nil
    /\ \E i \in keep : ~EditsFault(source, <<edits[i + 1]>>)

\* C7: KeepGroup(g) with a valid g leaves every index of the group g in keep
\* and SkipGroup(g) none; both leave the indices outside the group as they
\* were, and with g out of range keep is unchanged.
C7_GroupFrame ==
    [][/\ (op' = "KeepGroup" /\ ValidGroup(arg')) =>
            (Members(arg') \subseteq keep'
             /\ keep' \ Members(arg') = keep \ Members(arg'))
       /\ (op' = "SkipGroup" /\ ValidGroup(arg')) =>
            (Members(arg') \cap keep' = {}
             /\ keep' \ Members(arg') = keep \ Members(arg'))
       /\ (op' \in {"KeepGroup", "SkipGroup"} /\ ~ValidGroup(arg')) =>
            keep' = keep]_vars

\* C7's case: a group has been kept while an index outside it is kept and
\* another is not.
C7_Witness ==
    /\ op = "KeepGroup"
    /\ ValidGroup(arg)
    /\ Members(arg) \subseteq keep
    /\ EditGroupsLen > 1
    /\ keep # KeepAllKeep

\* C8: the groups partition the edit indices: read one group after the other
\* they are 0, 1, ..., Len() - 1, and no group is empty; so there is no group
\* exactly when there is no edit.
C8_GroupsPartition ==
    /\ \A g \in 0..(EditGroupsLen - 1) : Len(groups[g + 1]) > 0
    /\ \A g \in 0..(EditGroupsLen - 1) :
          \A i \in 1..(Len(groups[g + 1]) - 1) :
              groups[g + 1][i + 1] = groups[g + 1][i] + 1
    /\ \A g \in 0..(EditGroupsLen - 2) :
          groups[g + 2][1] = groups[g + 1][Len(groups[g + 1])] + 1
    /\ EditGroupsLen > 0 =>
          (groups[1][1] = 0
           /\ groups[EditGroupsLen][Len(groups[EditGroupsLen])] = DiffLen - 1)
    /\ (EditGroupsLen = 0 <=> DiffLen = 0)

\* C8's case: the edits fall into more than one group.
C8_Witness ==
    EditGroupsLen > 1 /\ DiffLen = MaxEdits

\* C9: two edits next to each other are in one group exactly when the second
\* ends on the line the first ends on, or on the line after it.
C9_MaximalRuns ==
    \A i \in 0..(DiffLen - 2) :
        (\E g \in 0..(EditGroupsLen - 1) :
            i \in Members(g) /\ (i + 1) \in Members(g))
        <=> (\/ edits[i + 2].Span.End = edits[i + 1].Span.End
             \/ edits[i + 2].Span.End = edits[i + 1].Span.End + 1)

\* C9's case: an edit ends on the line after its neighbour's and shares its
\* group.
C9_Witness ==
    \E i \in 0..(DiffLen - 2) :
        /\ edits[i + 2].Span.End = edits[i + 1].Span.End + 1
        /\ \E g \in 0..(EditGroupsLen - 1) :
              i \in Members(g) /\ (i + 1) \in Members(g)

\* C10: keep holds valid edit indices only, so 0 <= KeepLen() <= Len(); it
\* holds all of them right after KeepAll() and none right after SkipAll().
C10_KeepInRange ==
    /\ keep \subseteq 0..(DiffLen - 1)
    /\ 0 <= KeepLen /\ KeepLen <= DiffLen
    /\ op = "KeepAll" => KeepLen = DiffLen
    /\ op = "SkipAll" => KeepLen = 0

\* C10's case: KeepEdit was called with the index one past the last edit.
C10_Witness ==
    /\ op = "KeepEdit"
    /\ arg = DiffLen
    /\ DiffLen > 0
    /\ setCalled

\* The calls that keep or skip.
Selecting ==
    {"KeepAll", "KeepEdit", "KeepGroup", "SkipAll", "SkipEdit", "SkipGroup"}

\* C17: on a Diff on which SetEdit was not called, ModifiedEdits() right
\* after SkipAll() returns the source text and a nil error, whatever was kept
\* before.
C17_SkipAllIdentity ==
    (hist.stage = "skippedAllModified" /\ ~setCalled) =>
        (text = source /\ err = Nil /\ ~panicked)

\* C17's case: the pair has run on a Diff whose edits change the source.
C17_Witness ==
    /\ hist.stage = "skippedAllModified"
    /\ op = "ModifiedEdits"
    /\ ~setCalled
    /\ DiffLen = MaxEdits
    /\ changed # source

\* C18: SetEdit(i, text) with a valid i returns true and writes the new text
\* of edit i alone: a GetEdit(i) that follows returns (text, true), and keep,
\* groups, every span, the new text of every other edit, source and changed
\* are as they were.  The calls that keep or skip leave edits and groups as
\* they were.
C18_SetEditFrame ==
    [][/\ (op' = "SetEdit" /\ ValidIndex(arg')) =>
            (/\ ok'
             /\ edits'[arg' + 1].NewText \in SetTexts
             /\ Len(edits') = Len(edits)
             /\ \A j \in 1..Len(edits) :
                   /\ edits'[j].Span = edits[j].Span
                   /\ j # arg' + 1 => edits'[j].NewText = edits[j].NewText
             /\ keep' = keep /\ groups' = groups
             /\ source' = source /\ changed' = changed)
       /\ (op = "SetEdit" /\ ValidIndex(arg) /\ op' = "GetEdit"
           /\ arg' = arg) =>
            (ok' /\ text' = edits[arg + 1].NewText /\ text' \in SetTexts)
       /\ op' \in Selecting => (edits' = edits /\ groups' = groups)]_vars

\* C18's case: SetEdit has written one edit of two while an edit is kept, and
\* the other edit has the text it was computed with.
C18_Witness ==
    /\ op = "SetEdit"
    /\ ok
    /\ DiffLen = MaxEdits
    /\ keep # {}
    /\ edits[arg + 1].NewText \in SetTexts
    /\ \E j \in 1..Len(edits) : edits[j].NewText \notin SetTexts

\* C14: right after b := r.Clone() the configuration of b is that of r, and
\* a Set call on either of them leaves the five slots of the other as they
\* were.
C14_CloneIndependent ==
    [][/\ clone' # clone =>
            (/\ heap'[clone'.to] = heap[clone'.from]
             /\ \A p \in Pointers : heap'[p] = heap[p])
       /\ nset' # nset =>
            \A p, q \in Pointers :
                (p # q /\ heap'[p] # heap[p]) => heap'[q] = heap[q]]_vars

\* C14's case: a configured builder was cloned, and a Set call on one of the
\* two has since made them differ.
C14_Witness ==
    /\ clone.to # 0
    /\ heap[clone.from] # ZeroCRender
    /\ heap[clone.to] # ZeroCRender
    /\ heap[clone.to] # heap[clone.from]

\* C15 as claimed: once Make() has returned the Renderer, no Set call on a
\* builder changes the configuration the Renderer has.
C15_MadeImmutable ==
    [][(renderer # 0 /\ renderer' = renderer) =>
          heap'[renderer] = heap[renderer]]_vars

\* The string s without the symbols of the set marks, and the number of
\* times the symbol x is in s.
Without(s, marks) ==
    LET Kept(x) == x \notin marks
    IN SelectSeq(s, Kept)

Count(s, x) ==
    LET Is(y) == y = x
    IN Len(SelectSeq(s, Is))

\* The symbols of a pair of markup strings.
Marks(tag) ==
    {tag.Open[i] : i \in 1..Len(tag.Open)}
    \cup {tag.Close[i] : i \in 1..Len(tag.Close)}

\* The number of segments of the type t in ds.
SegmentsOfType(ds, t) ==
    LET Is(d) == d.Type = t
    IN Len(SelectSeq(ds, Is))

\* C16: RenderLine(a, b) gives markupA without the Text-removed markup the
\* escaped a and markupB without the Text-added markup the escaped b; it
\* wraps each deleted segment in markupA and each inserted segment in markupB
\* once, and puts no Text-added markup in markupA and no Text-removed markup
\* in markupB.
C16_RenderLineSides ==
    pc = "lineDone" =>
        LET c == heap[renderer]
        IN /\ Without(ma, Marks(c.Text.Rem))
                 = EscapeString(SideOf(diffs, "DiffInsert"))
           /\ Without(mb, Marks(c.Text.Add))
                 = EscapeString(SideOf(diffs, "DiffDelete"))
           /\ Without(ma, Marks(c.Text.Add)) = ma
           /\ Without(mb, Marks(c.Text.Rem)) = mb
           /\ Count(ma, c.Text.Rem.Open[1])
                 = SegmentsOfType(diffs, "DiffDelete")
           /\ Count(ma, c.Text.Rem.Close[1])
                 = SegmentsOfType(diffs, "DiffDelete")
           /\ Count(mb, c.Text.Add.Open[1])
                 = SegmentsOfType(diffs, "DiffInsert")
           /\ Count(mb, c.Text.Add.Close[1])
                 = SegmentsOfType(diffs, "DiffInsert")

\* C16's case: RenderLine has run on a diff with a segment of each type, one
\* of them with a character that is escaped.
C16_Witness ==
    /\ pc = "lineDone"
    /\ \A t \in SegmentTypes : SegmentsOfType(diffs, t) > 0
    /\ \E i \in 1..Len(diffs) : diffs[i].Text = <<"<">>
    /\ ma # mb

\* The configuration RenderDiff renders with.
Config == heap[renderer]

\* The symbols RenderDiff puts around lines and after them.
LineMarks ==
    Marks(Config.File) \cup Marks(Config.Normal) \cup Marks(Config.Comment)
    \cup Marks(Config.Line.Add) \cup Marks(Config.Line.Rem) \cup {"\n"}

\* The markup m reduced to the symbols put around its lines and after them.
Skeleton(m) ==
    LET Kept(x) == x \in LineMarks
    IN SelectSeq(m, Kept)

\* The last n symbols of s.
Suffix(s, n) == SubSeq(s, Len(s) - n + 1, Len(s))

\* The pair of markup strings of a line by its first character, the empty
\* line taken for a normal line.
ClassOfLine(line) ==
    IF line = <<>> THEN Config.Normal
    ELSE IF line[1] = "+" THEN Config.Line.Add
    ELSE IF line[1] = "-" THEN Config.Line.Rem
    ELSE IF line[1] \in {"@", "\\", "#"} THEN Config.Comment
    ELSE Config.Normal

\* One opening string, one closing string and one line feed for each of the
\* lines ls, in order; for the empty lines too when blank is TRUE.
RECURSIVE SegmentMarks(_, _)
SegmentMarks(ls, blank) ==
    IF ls = <<>> THEN <<>>
    ELSE (IF Head(ls) = <<>> /\ ~blank THEN <<>>
          ELSE ClassOfLine(Head(ls)).Open \o ClassOfLine(Head(ls)).Close
               \o <<"\n">>)
         \o SegmentMarks(Tail(ls), blank)

\* The lines of the input after the first two, and the lines not empty.
BodyOf(ls) == SubSeq(ls, 3, Len(ls))
NonEmpty(ls) ==
    LET Kept(l) == l # <<>>
    IN SelectSeq(ls, Kept)

\* C11 as claimed: the first two lines of the input are in the result as
\* they are, each with its line feed, right after the opening File string:
\* no Normal, Comment, Line-added or Line-removed string is put around them.
C11_HeaderUnwrapped ==
    (pc = "rendered" /\ Len(original) >= 2) =>
        LET head == Config.File.Open \o original[1] \o <<"\n">>
                    \o original[2] \o <<"\n">>
        IN /\ Len(markup) >= Len(head)
           /\ SubSeq(markup, 1, Len(head)) = head

\* C12 as claimed: for every line of the input after the first two, the
\* empty lines too (as normal lines), the result has one segment in the pair
\* of strings of the line's first character and one line feed after it, in
\* the order of the lines, before the closing File string; and the result
\* has as many line feeds as the input has lines.
C12_OneSegmentPerLine ==
    (pc = "rendered" /\ Len(original) >= 2) =>
        LET tail == SegmentMarks(BodyOf(original), TRUE) \o Config.File.Close
        IN /\ Len(Skeleton(markup)) >= Len(tail)
           /\ Suffix(Skeleton(markup), Len(tail)) = tail
           /\ Count(markup, "\n") = Len(original)

\* C12 amended: for every line of the input after the first two that is not
\* empty, the result has one segment in the pair of strings of the line's
\* first character and one line feed after it, in the order of the lines,
\* before the closing File string; an empty line puts nothing in the result;
\* and one line feed is put out for each line of the input, the first two
\* included, that is not empty.
C12_OneSegmentPerLineAmended ==
    (pc = "rendered" /\ Len(original) >= 2) =>
        LET tail == SegmentMarks(BodyOf(original), FALSE)
                    \o Config.File.Close
        IN /\ Len(Skeleton(markup)) >= Len(tail)
           /\ Suffix(Skeleton(markup), Len(tail)) = tail
           /\ Count(markup, "\n") = Len(NonEmpty(original))

\* C12's case: a diff with an empty line, a hunk line, a removed line and
\* an added line after the header has been rendered.
C12_Witness ==
    /\ pc = "rendered"
    /\ Len(original) = 2 + MaxBody
    /\ \A l \in {<<>>, <<"@">>, <<"-", "b">>, <<"+", "a", "&">>} :
          \E i \in 3..Len(original) : original[i] = l

\* Whether the line of the input at index i, after the first two, is a
\* removed line, and whether it is an added line.
IsRem(i) ==
    /\ 2 <= i /\ i < Len(original)
    /\ original[i + 1] # <<>>
    /\ original[i + 1][1] = "-"

IsAdd(i) ==
    /\ 2 <= i /\ i < Len(original)
    /\ original[i + 1] # <<>>
    /\ original[i + 1][1] = "+"

\* The removed lines right before index i and from index i on, and the
\* added lines likewise.
RECURSIVE RemsBefore(_)
RemsBefore(i) == IF IsRem(i - 1) THEN 1 + RemsBefore(i - 1) ELSE 0

RECURSIVE RemsFrom(_)
RemsFrom(i) == IF IsRem(i) THEN 1 + RemsFrom(i + 1) ELSE 0

RECURSIVE AddsBefore(_)
AddsBefore(i) == IF IsAdd(i - 1) THEN 1 + AddsBefore(i - 1) ELSE 0

RECURSIVE AddsFrom(_)
AddsFrom(i) == IF IsAdd(i) THEN 1 + AddsFrom(i + 1) ELSE 0

\* A run is the removed lines next to each other and the added lines right
\* after them.  The added line of the same rank in the run of the removed
\* line i, and the removed line of the same rank in the run of the added
\* line j; -1 when the run has none.
PartnerOfRem(i) ==
    LET rank == RemsBefore(i)
        adds == i + RemsFrom(i)
    IN IF rank < AddsFrom(adds) THEN adds + rank ELSE -1

PartnerOfAdd(j) ==
    LET rank == AddsBefore(j)
        adds == j - rank
        rems == RemsBefore(adds)
    IN IF rank < rems THEN adds - rems + rank ELSE -1

\* A line as the scan puts it out: its first character and the rest escaped.
Plain(line) ==
    IF line = <<>> THEN <<>>
    ELSE <<line[1]>> \o EscapeString(Tail(line))

\* The line at index i once every batch is flushed.
PreparedLine(i) ==
    IF i < 2 THEN original[i + 1]
    ELSE IF IsRem(i) /\ PartnerOfRem(i) >= 0
    THEN <<"-">> \o RenderLineOf(Config, Tail(original[i + 1]),
                        Tail(original[PartnerOfRem(i) + 1])).ma
    ELSE IF IsAdd(i) /\ PartnerOfAdd(i) >= 0
    THEN <<"+">> \o RenderLineOf(Config, Tail(original[PartnerOfAdd(i) + 1]),
                        Tail(original[i + 1])).mb
    ELSE Plain(original[i + 1])

\* C13: the flush of a batch of r removed and a added lines rewrites the
\* i-th removed and the i-th added line, for i < min(r, a), with the two
\* results of RenderLine on them; a removed or added line of a higher rank,
\* and every line of a batch without added lines, is left as its first
\* character and its escaped rest.
C13_PairsByRank ==
    pc \in {"prepared", "rendered"} =>
        /\ Len(outLines) = Len(original)
        /\ \A i \in 0..(Len(original) - 1) : outLines[i + 1] = PreparedLine(i)

\* C13's case: a batch of two removed lines and one added line was flushed:
\* the first removed line was rewritten and the second was left as it was.
C13_Witness ==
    /\ pc = "prepared"
    /\ \E i \in 2..(Len(original) - 1) :
          /\ IsRem(i) /\ IsRem(i + 1)
          /\ PartnerOfRem(i) >= 0
          /\ PartnerOfRem(i + 1) = -1
          /\ outLines[i + 1] # Plain(original[i + 1])
          /\ outLines[i + 2] = Plain(original[i + 2])

\* The pairs logged, as a set.
Logged == {log[k] : k \in 1..Len(log)}

\* C19: every index a flush writes is in range and is the index at which the
\* i-th removed or the i-th added line of the batch was put out: it is not
\* the index of a header line nor of the line that set off the flush; and
\* prepareRenderDiff returns as many lines as it was given, each with the
\* first character it had.
C19_WritesInBatch ==
    /\ pc # "panic"
    /\ \A p \in Logged :
          /\ 0 <= p.rem /\ p.rem < p.size
          /\ 0 <= p.add /\ p.add < p.size
          /\ p.rem = p.remSlot
          /\ p.add = p.addSlot
          /\ p.rem >= 2 /\ p.add >= 2
          /\ p.rem # p.lastIdx /\ p.add # p.lastIdx
    /\ pc \in {"prepared", "rendered"} =>
          /\ Len(outLines) = Len(original)
          /\ \A i \in 1..Len(original) :
                /\ (original[i] = <<>>) <=> (outLines[i] = <<>>)
                /\ original[i] # <<>> => outLines[i][1] = original[i][1]

\* C19's case: a removed line after added lines set off a flush that
\* rewrote a pair, and the last line's batch was flushed at the end.
C19_Witness ==
    /\ pc = "prepared"
    /\ \E p, q \in Logged :
          /\ p.lastIdx < Len(original)
          /\ IsRem(p.lastIdx)
          /\ q.lastIdx = Len(original)

\* C20: while the scan is under way an open batch has a removed line or
\* more, its removed lines come before its added lines, and its lines are
\* the lines put out last, next to each other; a removed line is paired with
\* the added line of its rank in its own run and with no other, so never
\* across an empty, context or comment line nor across an added line
\* followed by a removed line; an added line with no removed line before it
\* opens no batch; and no batch is open once the scan has ended.
C20_BatchIsLastRun ==
    /\ pc = "scan" => Len(outLines) = scanIdx
    /\ batch = NilBatch => slots = NoSlots
    /\ batch # NilBatch =>
          LET b == batch[1]
              n == Len(b.d) + Len(b.a)
          IN /\ pc = "scan"
             /\ Len(b.d) >= 1
             /\ Len(slots.d) = Len(b.d)
             /\ Len(slots.a) = Len(b.a)
             /\ slots.d \o slots.a = [k \in 1..n |-> scanIdx - n + k - 1]
             /\ \A k \in 1..Len(b.d) :
                   original[slots.d[k] + 1] = <<"-">> \o b.d[k]
             /\ \A k \in 1..Len(b.a) :
                   original[slots.a[k] + 1] = <<"+">> \o b.a[k]
    /\ (pc = "scan" /\ IsAdd(scanIdx - 1)
        /\ RemsBefore(scanIdx - 1 - AddsBefore(scanIdx - 1)) = 0) =>
          batch = NilBatch
    /\ \A p \in Logged :
          IsRem(p.remSlot) /\ PartnerOfRem(p.remSlot) = p.addSlot
    /\ pc \in {"prepared", "rendered"} =>
          /\ batch = NilBatch
          /\ {<<p.remSlot, p.addSlot>> : p \in Logged}
                = {<<i, PartnerOfRem(i)>> :
                      i \in {j \in 2..(Len(original) - 1) :
                                IsRem(j) /\ PartnerOfRem(j) >= 0}}

\* C20's case: the lines -, +, -, + were scanned: the first removed line is
\* paired with the first added line and the second with the second.
C20_Witness ==
    /\ pc = "prepared"
    /\ Len(original) = 6
    /\ IsRem(2) /\ IsAdd(3) /\ IsRem(4) /\ IsAdd(5)
    /\ {<<p.remSlot, p.addSlot>> : p \in Logged} = {<<2, 3>>, <<4, 5>>}

====
